---- MODULE Spec2Model ----
(***************************************************************************)
(* Collection orchestration and job processing of claims-finder-agent:     *)
(* the persistent store and the two collector families that write to it,   *)
(* the Bull job queues, the in-memory queue, and the orchestrator's cycle  *)
(* with its rolling performance history.                                   *)
(*                                                                         *)
(* Each component has its own specification over the shared variables; a   *)
(* component's actions leave the other components' variables unchanged.    *)
(***************************************************************************)
EXTENDS Integers, Sequences, FiniteSets, TLC

VARIABLES
    cases,      \* the cases table: a set of rows
    sources,    \* the sources table: a set of rows
    now,        \* wall clock, in hours
    runs,       \* collect() invocations so far
    started,    \* search results returned so far
    col,        \* per collector: position and locals of collect()
    lastResult, \* the CollectorResult of the latest collect() to return
    unreachable, \* whether every search / fetch call to the outside source fails
    server,     \* the entry point that runs: server.ts or server-simple.ts
    bull,       \* per Bull queue: its jobs, in the order they were added
    bullWait,   \* per Bull queue: the ids of the waiting jobs, first to run first
    webhookUrl, \* whether process.env.WEBHOOK_URL is set
    webhookDown, \* whether the webhook endpoint answers 500 to every delivery
    jobBudget,  \* trigger requests still to come
    throwBudget, \* handler failures still to come
    response,   \* HTTP status of the latest answer to a trigger request, 0 before any
    memJobs,    \* InMemoryQueue.jobs, in insertion order
    memProcessor,  \* InMemoryQueue.processor is set
    memProcessing, \* InMemoryQueue.processing
    memImmediates, \* setImmediate(() => this.processNext()) callbacks pending
    memRun,     \* the processNext() that awaits the processor, if any
    cycle,      \* AgenticOrchestrator.runCollection: its position and locals
    cycles,     \* runCollection() calls so far
    performanceHistory, \* AgenticOrchestrator.performanceHistory
    generatedQueries,   \* AgenticOrchestrator.generatedQueries, by its shape
    metricsInput,  \* the result each source's collector comes back with
    metricsUpdates, \* updatePerformanceMetrics calls so far, per source
    sec,        \* SecCollector.collect: its position and locals
    srcRun      \* per concurrent run: its position in getOrCreateSource

storeVars == <<cases, sources, now, runs, started, col, lastResult, unreachable>>

queueVars ==
    <<server, bull, bullWait, webhookUrl, webhookDown, jobBudget, throwBudget,
      response>>

memVars == <<memJobs, memProcessor, memProcessing, memImmediates, memRun>>

orchVars ==
    <<cycle, cycles, performanceHistory, generatedQueries, metricsInput, metricsUpdates>>

secVars == <<sec>>

srcVars == <<srcRun>>

vars == <<storeVars, queueVars, memVars, orchVars, secVars, srcVars>>

notStore == <<queueVars, memVars, orchVars, secVars, srcVars>>

notQueue == <<storeVars, memVars, orchVars, secVars, srcVars>>

notMem == <<storeVars, queueVars, orchVars, secVars, srcVars>>

notOrch == <<storeVars, queueVars, memVars, secVars, srcVars>>

notSec == <<storeVars, queueVars, memVars, orchVars, srcVars>>

notSrc == <<queueVars, memVars, orchVars, secVars>>

(***************************************************************************)
(* Bounds of the store model.                                              *)
(***************************************************************************)
MaxRuns == 2          \* collect() invocations
MaxCandidates == 2    \* search results over all runs
MaxClock == 96        \* hours
ClockStep == 96

(***************************************************************************)
(* Inputs: claim URLs, titles (a title is the set of its words).           *)
(***************************************************************************)
Urls == {"https://x.org/case-1", "https://x.org/case-2"}

\* Search results as extracted (each with a deadline 48 hours from the start):
\* a fresh case; the same case found again at
\* another page (claim URL extracted, source URL that of the page); a case at
\* another URL whose title shares a word; an unrelated case.
Candidates ==
    {[claimUrl |-> "https://x.org/case-1", sourceUrl |-> "https://x.org/case-1",
      title |-> {"acme"}, deadlineDate |-> 48],
     [claimUrl |-> "https://x.org/case-2", sourceUrl |-> "https://x.org/case-1",
      title |-> {"acme"}, deadlineDate |-> 48],
     [claimUrl |-> "https://x.org/case-2", sourceUrl |-> "https://x.org/case-2",
      title |-> {"acme", "settlement"}, deadlineDate |-> 48],
     [claimUrl |-> "https://x.org/case-2", sourceUrl |-> "https://x.org/case-2",
      title |-> {"refund"}, deadlineDate |-> 48]}

NoCand == [claimUrl |-> "", sourceUrl |-> "", title |-> {}, deadlineDate |-> 0]

\* The collectors: the two that extend the BaseCollector with saveCase, and
\* the backend's ExaCollector, which extends the BaseCollector with processCase.
LibCollectors == {"ExaLib", "FtcLib"}

BackendCollectors == {"ExaBackend"}

Collectors == LibCollectors \cup BackendCollectors

\* the categories of getDefaultConfigs() the backend ExaCollector walks
\* (two of them here); the lib collectors make one search
Categories(c) == IF c \in LibCollectors THEN 1 ELSE 2

SourceName(c) == IF c = "FtcLib" THEN "FTC Press Releases" ELSE "Exa Web Search"

RecentWindowHours == 72

(***************************************************************************)
(* DatabaseOperations: the queries, as functions of the tables.            *)
(***************************************************************************)
RowsByUrl(url) == {r \in cases : r.claim_url = url}

\* id DEFAULT gen_random_uuid(): ids are opaque and never reused (no row is
\* deleted); a new row takes the first id that is free among `rows`, the rows
\* it could be mistaken for
NewId(rows) == Cardinality(rows) + 1

\* findCaseByUrl: .eq('claim_url', url).single(); no row is PGRST116 -> null
findCaseByUrl(url) == RowsByUrl(url) # {}

\* findSimilarCases: the exact title among active rows, else the text search
\* on the title's words joined by '|'
ExactTitle(title) == {r \in cases : r.title = title /\ r.status = "active"}

FuzzyTitle(title) ==
    {r \in cases : r.status = "active" /\ r.title \cap title # {}}

findSimilarCases(title, searchOk) ==
    IF ExactTitle(title) # {} THEN ExactTitle(title)
    ELSE IF searchOk THEN FuzzyTitle(title) ELSE {}

getRecentCasesForDuplicateCheck(hours) ==
    {r \in cases : r.status = "active" /\ r.created_at >= now - hours}

findSourceByName(name) == {s \in sources : s.name = name}

\* a cases table without the UNIQUE constraint: no insert is refused
NoUniqueConstraint(url) == FALSE

\* insert into cases: claim_url is UNIQUE
UniqueViolation(url) == RowsByUrl(url) # {}

\* (of a row's columns the model keeps the ones the queries above read)
InsertCase(cand) ==
    cases \cup {[id |-> NewId(RowsByUrl(cand.claimUrl)),
                 claim_url |-> cand.claimUrl, title |-> cand.title,
                 deadline_date |-> cand.deadlineDate,
                 status |-> "active", created_at |-> now]}

\* upsert ... onConflict: 'claim_url': the row of that URL is overwritten
\* (status back to 'active'), or a row is inserted
UpsertCase(cand, claimUrl) ==
    IF RowsByUrl(claimUrl) # {}
    THEN {IF r.claim_url = claimUrl
          THEN [r EXCEPT !.title = cand.title, !.status = "active",
                         !.deadline_date = cand.deadlineDate]
          ELSE r : r \in cases}
    ELSE cases \cup {[id |-> NewId(RowsByUrl(claimUrl)), claim_url |-> claimUrl,
                      title |-> cand.title, deadline_date |-> cand.deadlineDate,
                      status |-> "active", created_at |-> now]}

(***************************************************************************)
(* Collectors.  col[c].pc is the store call or service call the collector  *)
(* is about to make; steps that touch nothing shared are taken together    *)
(* with the call that follows them.                                        *)
(***************************************************************************)
IdleCol ==
    [pc |-> "idle", found |-> 0, processed |-> 0, errors |-> 0, left |-> 0,
     cats |-> 0, cand |-> NoCand, sourceId |-> 0, dedup |-> "none",
     storedAtStart |-> FALSE]

NoResult == [sourceName |-> "", casesFound |-> 0, casesProcessed |-> 0, errors |-> 0]

\* createResult(casesFound, casesProcessed, errors, startTime)
createResult(c, r) ==
    [sourceName |-> SourceName(c), casesFound |-> r.found,
     casesProcessed |-> r.processed, errors |-> r.errors]

(***************************************************************************)
(* The Bull queues: 'collector-jobs' and 'webhook-jobs' of setupQueues(),  *)
(* and the 'collector-jobs' queue of server-simple.ts.                     *)
(***************************************************************************)
BullQueues == {"collector", "webhook", "simple"}

Servers == {"server", "server-simple"}

\* the queue POST /run adds to: server.ts calls setupQueues(), server-simple.ts
\* makes its own queue
TriggerQueue(srv) == IF srv = "server" THEN "collector" ELSE "simple"

CollectorAttempts == 3
WebhookAttempts == 5
DefaultAttempts == 1
CollectorConcurrency == 5
WebhookConcurrency == 10
DefaultConcurrency == 1

\* Bounds of the queue model: a run with few jobs and every retry, the same
\* with the webhook listeners on, and a run with more jobs than worker slots.
MaxJobs == 2
MaxThrows == 3
MaxHookJobs == 1
MaxPoolJobs == 7
MaxPoolThrows == 1

\* a notifier that shares the collector queue's retry budget
CollectorBudgetForAll(q) == CollectorAttempts

\* defaultJobOptions.attempts; server-simple.ts passes none
Attempts(q) ==
    CASE q = "collector" -> CollectorAttempts
      [] q = "webhook" -> WebhookAttempts
      [] OTHER -> DefaultAttempts

\* queue.process(concurrency, handler); server-simple.ts passes no concurrency
Concurrency(q) ==
    CASE q = "collector" -> CollectorConcurrency
      [] q = "webhook" -> WebhookConcurrency
      [] OTHER -> DefaultConcurrency

QueueIdle ==
    /\ server = "server"
    /\ bull = [q \in BullQueues |-> <<>>]
    /\ bullWait = [q \in BullQueues |-> <<>>]
    /\ webhookUrl = FALSE
    /\ webhookDown = FALSE
    /\ jobBudget = 0
    /\ throwBudget = 0
    /\ response = 0

(***************************************************************************)
(* InMemoryQueue.  A job's optional fields: finishedOn and returnvalue are  *)
(* set or not; failedReason is undefined, or the message of what was       *)
(* thrown, which may be the empty string.                                  *)
(***************************************************************************)
MaxMemJobs == 3

Undefined == "undefined"

Messages == {"", "boom"}

NoRun == [job |-> 0, pendingJobs |-> 0]

MemIdle ==
    /\ memJobs = <<>>
    /\ memProcessor = FALSE
    /\ memProcessing = FALSE
    /\ memImmediates = 0
    /\ memRun = NoRun

(***************************************************************************)
(* AgenticOrchestrator.  Success rates and priorities are kept as exact     *)
(* fractions <<numerator, denominator>>.                                   *)
(***************************************************************************)
MaxCycles == 2        \* runCollection() calls
MaxUpdates == 22      \* updatePerformanceMetrics calls per source

ExaName == "Exa Web Search"

FtcName == "FTC Press Releases"

SecName == "SEC EDGAR Filings"

ForcedName == "Exa Web Search (forced)"

\* knownSources of prioritizeSources, with the hours since lastChecked
knownSources ==
    <<[name |-> ExaName, hours |-> 2], [name |-> FtcName, hours |-> 6],
      [name |-> SecName, hours |-> 4]>>

SourceNames == {knownSources[i].name : i \in DOMAIN knownSources}

\* what a collector's collect() comes back with: nothing found; the collector
\* failed; everything found was processed; half of it was
Results ==
    {[casesFound |-> 0, casesProcessed |-> 0, errors |-> 0],
     [casesFound |-> 0, casesProcessed |-> 0, errors |-> 1],
     [casesFound |-> 1, casesProcessed |-> 1, errors |-> 0],
     [casesFound |-> 2, casesProcessed |-> 1, errors |-> 1]}

NoCycle ==
    [pc |-> "idle", strategy |-> "", reasoning |-> "", prioritizedSources |-> <<>>,
     next |-> 0, results |-> <<>>, collectorsRun |-> <<>>]

OrchIdle ==
    /\ cycle = NoCycle
    /\ cycles = 0
    /\ performanceHistory = [s \in SourceNames |-> <<>>]
    /\ generatedQueries = "empty"
    /\ metricsInput = [s \in SourceNames |-> CHOOSE r \in Results : TRUE]
    /\ metricsUpdates = [s \in SourceNames |-> 0]

(***************************************************************************)
(* SecCollector.  collect() walks targetCompanies; processCompany takes    *)
(* the company's recent relevant filings and processes the first ten.      *)
(***************************************************************************)
MaxCompanies == 2     \* targetCompanies walked (the code lists 20)
MaxFilings == 12      \* recent relevant filings of one company

FilingSlice == 10

IdleSec ==
    [pc |-> "idle", casesFound |-> 0, casesProcessed |-> 0, errors |-> 0,
     companies |-> 0, recentFilings |-> 0, left |-> 0, processed |-> 0]

SecIdle == sec = IdleSec

(***************************************************************************)
(* getOrCreateSource, for concurrent collect() runs of one source.         *)
(***************************************************************************)
MaxSourceCalls == 4   \* getOrCreateSource calls over all runs

SourceRuns == {"run1", "run2"}

\* the lib BaseCollector (getActiveSources, then update or create) and the
\* backend BaseCollector (findSourceByName, then create)
SourceKinds == {"lib", "backend"}

IdleSrc == [pc |-> "idle", sourceId |-> 0, stamp |-> 0]

SrcIdle == srcRun = [r \in SourceRuns |-> IdleSrc]

\* the store is empty and no collector runs
StoreIdle ==
    /\ cases = {}
    /\ sources = {}
    /\ now = 0
    /\ runs = 0
    /\ started = 0
    /\ col = [c \in Collectors |-> IdleCol]
    /\ lastResult = NoResult
    /\ unreachable = FALSE

\* the outside source answers, or it is down for the whole run
StoreInit ==
    /\ cases = {}
    /\ sources = {}
    /\ now = 0
    /\ runs = 0
    /\ started = 0
    /\ col = [c \in Collectors |-> IdleCol]
    /\ lastResult = NoResult
    /\ unreachable \in BOOLEAN
    /\ QueueIdle /\ MemIdle /\ OrchIdle /\ SecIdle /\ SrcIdle

\* time passes
Tick ==
    /\ now < MaxClock
    /\ now' = now + ClockStep
    /\ UNCHANGED <<cases, sources, runs, started, col, lastResult>>
    /\ UNCHANGED <<unreachable, notStore>>

\* the outer catch of collect(): errors.push
Caught(r) == [r EXCEPT !.pc = "return", !.errors = @ + 1]

\* the candidate loop of one search is over: the next category, or the return
AfterLoop(r) == [r EXCEPT !.pc = IF r.cats > 0 THEN "search" ELSE "return"]

\* Collector c has moved to r.  When collect() has come to its return, the
\* CollectorResult goes to the caller and the collector is idle again.
Stepped(c, r) ==
    /\ col' = [col EXCEPT ![c] = IF r.pc = "return" THEN IdleCol ELSE r]
    /\ lastResult' = IF r.pc = "return" THEN createResult(c, r) ELSE lastResult

\* collect() of a lib collector up to its first store call:
\* getOrCreateSource reads getActiveSources and looks for its name
LibCollectStart(c) ==
    /\ c \in LibCollectors
    /\ col[c].pc = "idle"
    /\ runs < MaxRuns
    /\ runs' = runs + 1
    /\ \E ok \in BOOLEAN :
         IF ~ok THEN Stepped(c, Caught(IdleCol))
         ELSE IF findSourceByName(SourceName(c)) # {}
         THEN \E s \in findSourceByName(SourceName(c)) :
                Stepped(c, [IdleCol EXCEPT !.pc = "touchSource", !.sourceId = s.id,
                                           !.cats = Categories(c)])
         ELSE Stepped(c, [IdleCol EXCEPT !.pc = "createSource",
                                         !.cats = Categories(c)])
    /\ UNCHANGED <<cases, sources, now, started>>
    /\ UNCHANGED <<unreachable, notStore>>

\* DatabaseOperations.updateSourceLastChecked
LibTouchSource(c) ==
    /\ col[c].pc = "touchSource"
    /\ \E ok \in BOOLEAN :
         IF ~ok
         THEN /\ Stepped(c, Caught(col[c]))
              /\ UNCHANGED sources
         ELSE /\ sources' = {IF s.name = SourceName(c) /\ s.id = col[c].sourceId
                             THEN [s EXCEPT !.last_checked = now] ELSE s
                             : s \in sources}
              /\ Stepped(c, [col[c] EXCEPT !.pc = "search", !.sourceId = 0])
    /\ UNCHANGED <<cases, now, runs, started>>
    /\ UNCHANGED <<unreachable, notStore>>

\* DatabaseOperations.createSource: insert into sources (name is not unique)
LibCreateSource(c) ==
    /\ col[c].pc = "createSource"
    /\ \E ok \in BOOLEAN :
         IF ~ok
         THEN /\ Stepped(c, Caught(col[c]))
              /\ UNCHANGED sources
         ELSE /\ sources' = sources \cup
                    {[id |-> NewId(findSourceByName(SourceName(c))),
                      name |-> SourceName(c), last_checked |-> now]}
              /\ Stepped(c, [col[c] EXCEPT !.pc = "search"])
    /\ UNCHANGED <<cases, now, runs, started>>
    /\ UNCHANGED <<unreachable, notStore>>

\* collect() of the backend ExaCollector up to its first search
BackendCollectStart(c) ==
    /\ c \in BackendCollectors
    /\ col[c].pc = "idle"
    /\ runs < MaxRuns
    /\ runs' = runs + 1
    /\ \/ Stepped(c, [IdleCol EXCEPT !.pc = "search", !.cats = Categories(c)])
       \/ Stepped(c, Caught(IdleCol))   \* initializeScraper throws
    /\ UNCHANGED <<cases, sources, now, started>>
    /\ UNCHANGED <<unreachable, notStore>>

\* A failed search: FtcCollector.collectPressReleases lets the failure out;
\* ExaService.searchLegalOpportunities catches it, logs it and returns the
\* results it has.
SearchThrows(c) == c = "FtcLib"

\* searchLegalOpportunities / collectPressReleases: n results, or the call
\* fails.  A throw of the lib FtcCollector reaches the outer catch of
\* collect(); a failure inside ExaService comes back as an empty list.
Search(c) ==
    /\ col[c].pc = "search"
    /\ \/ /\ ~unreachable
          /\ \E n \in 0..(MaxCandidates - started) :
               /\ started' = started + n
               /\ LET r == [col[c] EXCEPT !.found = @ + n, !.left = n, !.cats = @ - 1]
                  IN  Stepped(c, IF n = 0 THEN AfterLoop(r)
                                 ELSE [r EXCEPT !.pc = "extract"])
       \/ /\ UNCHANGED started
          /\ Stepped(c, IF SearchThrows(c) THEN Caught(col[c])
                        ELSE AfterLoop([col[c] EXCEPT !.cats = @ - 1]))
    /\ UNCHANGED <<cases, sources, now, runs>>
    /\ UNCHANGED <<unreachable, notStore>>

\* One candidate leaves processSearchResult / processPressRelease / the loop
\* body of the backend collect().  `counted`: casesProcessed++; `threw`: the
\* per-candidate catch pushes an error.
CandidateDone(r, counted, threw) ==
    LET q == [r EXCEPT !.left = @ - 1,
                       !.processed = IF counted THEN @ + 1 ELSE @,
                       !.errors = IF threw THEN @ + 1 ELSE @,
                       !.cand = NoCand, !.dedup = "none", !.storedAtStart = FALSE]
    IN  IF q.left > 0 THEN [q EXCEPT !.pc = "extract"] ELSE AfterLoop(q)

\* extraction (processContent / extractCaseDetails): a candidate, null, or a throw.
\* The lib collectors count a candidate whenever processSearchResult returns;
\* the backend ExaCollector counts only when processCase returned true.
Extract(c) ==
    /\ col[c].pc = "extract"
    /\ \/ \E cand \in Candidates :
            Stepped(c, [col[c] EXCEPT !.pc = IF c \in LibCollectors THEN "chkClaim"
                                             ELSE "findSource",
                                      !.cand = cand,
                                      !.storedAtStart = findCaseByUrl(cand.claimUrl)])
       \/ Stepped(c, CandidateDone(col[c], c \in LibCollectors, FALSE))
       \/ Stepped(c, CandidateDone(col[c], FALSE, TRUE))
    /\ UNCHANGED <<cases, sources, now, runs, started>>
    /\ UNCHANGED <<unreachable, notStore>>

(***************************************************************************)
(* lib BaseCollector.saveCase: the duplicate checks, then createCase.      *)
(* Any throw inside is rethrown as a CollectorError, which the collector's *)
(* per-candidate catch records.                                            *)
(***************************************************************************)
SaveThrew(r) == CandidateDone(r, FALSE, TRUE)

\* a duplicate: saveCase returns without writing
SaveSkipped(r) == CandidateDone(r, TRUE, FALSE)

\* every check passed: saveCase goes on to createCase
SaveAccepted(r) == [r EXCEPT !.pc = "create", !.dedup = "accepted"]

\* 1. exact URL match
SaveCheckClaimUrl(c) ==
    /\ col[c].pc = "chkClaim"
    /\ \E ok \in BOOLEAN :
         Stepped(c, IF ~ok THEN SaveThrew(col[c])
                    ELSE IF findCaseByUrl(col[c].cand.claimUrl)
                         THEN SaveSkipped(col[c])
                    ELSE [col[c] EXCEPT !.pc = "chkSource"])
    /\ UNCHANGED <<cases, sources, now, runs, started>>
    /\ UNCHANGED <<unreachable, notStore>>

\* 2. source URL, if different from the claim URL
SaveCheckSourceUrl(c) ==
    /\ col[c].pc = "chkSource"
    /\ IF col[c].cand.sourceUrl # col[c].cand.claimUrl
       THEN \E ok \in BOOLEAN :
              Stepped(c, IF ~ok THEN SaveThrew(col[c])
                         ELSE IF findCaseByUrl(col[c].cand.sourceUrl)
                              THEN SaveSkipped(col[c])
                         ELSE [col[c] EXCEPT !.pc = "similar"])
       ELSE Stepped(c, [col[c] EXCEPT !.pc = "similar"])
    /\ UNCHANGED <<cases, sources, now, runs, started>>
    /\ UNCHANGED <<unreachable, notStore>>

\* 3. similar titles; findSimilarCases swallows its own errors
SaveFindSimilar(c) ==
    /\ col[c].pc = "similar"
    /\ \E searchOk \in BOOLEAN :
         Stepped(c, IF findSimilarCases(col[c].cand.title, searchOk) # {}
                    THEN [col[c] EXCEPT !.pc = "recent"]
                    ELSE SaveAccepted(col[c]))
    /\ UNCHANGED <<cases, sources, now, runs, started>>
    /\ UNCHANGED <<unreachable, notStore>>

\* the recent window; getRecentCasesForDuplicateCheck returns [] on error
SaveGetRecent(c) ==
    /\ col[c].pc = "recent"
    /\ \E ok \in BOOLEAN :
         Stepped(c, IF ok /\ getRecentCasesForDuplicateCheck(RecentWindowHours) # {}
                    THEN [col[c] EXCEPT !.pc = "detect"]
                    ELSE SaveAccepted(col[c]))
    /\ UNCHANGED <<cases, sources, now, runs, started>>
    /\ UNCHANGED <<unreachable, notStore>>

\* geminiService.detectDuplicates: a verdict, or a throw
SaveDetect(c) ==
    /\ col[c].pc = "detect"
    /\ \/ \E isDuplicate \in BOOLEAN :
            Stepped(c, IF isDuplicate THEN SaveSkipped(col[c])
                       ELSE SaveAccepted(col[c]))
       \/ Stepped(c, SaveThrew(col[c]))
    /\ UNCHANGED <<cases, sources, now, runs, started>>
    /\ UNCHANGED <<unreachable, notStore>>

\* 4. all checks passed: db.createCase
SaveCreate(c) ==
    /\ col[c].pc = "create"
    /\ \E ok \in BOOLEAN :
         IF ~ok \/ UniqueViolation(col[c].cand.claimUrl)
         THEN /\ Stepped(c, SaveThrew(col[c]))
              /\ UNCHANGED cases
         ELSE /\ cases' = InsertCase(col[c].cand)
              /\ Stepped(c, CandidateDone(col[c], TRUE, FALSE))
    /\ UNCHANGED <<sources, now, runs, started>>
    /\ UNCHANGED <<unreachable, notStore>>

(***************************************************************************)
(* backend BaseCollector.processCase: getOrCreateSource, then upsertCase;  *)
(* its catch returns false.                                                *)
(***************************************************************************)
ProcessFalse(r) == CandidateDone(r, FALSE, FALSE)

\* getOrCreateSource: findSourceByName (.single(): a row only when exactly one)
ProcFindSource(c) ==
    /\ col[c].pc = "findSource"
    /\ \E ok \in BOOLEAN :
         Stepped(c, IF ~ok THEN ProcessFalse(col[c])
                    ELSE IF Cardinality(findSourceByName(SourceName(c))) = 1
                         THEN [col[c] EXCEPT !.pc = "upsert"]
                    ELSE [col[c] EXCEPT !.pc = "newSource"])
    /\ UNCHANGED <<cases, sources, now, runs, started>>
    /\ UNCHANGED <<unreachable, notStore>>

ProcCreateSource(c) ==
    /\ col[c].pc = "newSource"
    /\ \E ok \in BOOLEAN :
         IF ~ok
         THEN /\ Stepped(c, ProcessFalse(col[c]))
              /\ UNCHANGED sources
         ELSE /\ sources' = sources \cup
                    {[id |-> NewId(findSourceByName(SourceName(c))),
                      name |-> SourceName(c), last_checked |-> now]}
              /\ Stepped(c, [col[c] EXCEPT !.pc = "upsert"])
    /\ UNCHANGED <<cases, now, runs, started>>
    /\ UNCHANGED <<unreachable, notStore>>

\* db.upsertCase(extractedCase, sourceId, extractedCase.claimUrl || sourceUrl)
ProcUpsert(c) ==
    /\ col[c].pc = "upsert"
    /\ \E ok \in BOOLEAN :
         IF ~ok
         THEN /\ Stepped(c, ProcessFalse(col[c]))
              /\ UNCHANGED cases
         ELSE /\ cases' = UpsertCase(col[c].cand, col[c].cand.claimUrl)
              /\ Stepped(c, CandidateDone(col[c], TRUE, FALSE))
    /\ UNCHANGED <<sources, now, runs, started>>
    /\ UNCHANGED <<unreachable, notStore>>

StoreNext ==
    \/ Tick
    \/ \E c \in Collectors :
         \/ LibCollectStart(c)
         \/ BackendCollectStart(c)
         \/ LibTouchSource(c)
         \/ LibCreateSource(c)
         \/ Search(c)
         \/ Extract(c)
         \/ SaveCheckClaimUrl(c)
         \/ SaveCheckSourceUrl(c)
         \/ SaveFindSimilar(c)
         \/ SaveGetRecent(c)
         \/ SaveDetect(c)
         \/ SaveCreate(c)
         \/ ProcFindSource(c)
         \/ ProcCreateSource(c)
         \/ ProcUpsert(c)

SpecStore == StoreInit /\ [][StoreNext]_vars

\* collector c holds a candidate and takes a step
Acts(c) == col[c].cand # NoCand /\ col'[c] # col[c]

\* C1: a candidate whose claim URL is already the claim URL of a stored case
\* is rejected: no step taken for it changes the cases table.
C1_StoredUrlIsNotWritten ==
    [][\A c \in Collectors :
         Acts(c) /\ findCaseByUrl(col[c].cand.claimUrl) => cases' = cases]_vars

\* C2: in every reachable state, whatever the interleaving of the collectors,
\* the cases table holds at most one row per claim URL.
C2_OneCasePerClaimUrl == \A u \in Urls : Cardinality(RowsByUrl(u)) <= 1

\* C2, the race: a collector is about to insert a case whose claim URL was
\* not stored when it took the candidate up, and is stored by now.
C2_LostRace ==
    \E c \in LibCollectors :
        /\ col[c].pc = "create"
        /\ ~col[c].storedAtStart
        /\ findCaseByUrl(col[c].cand.claimUrl)

\* C3: a collector calls createCase / upsertCase for a candidate only after
\* the duplicate checks ran for that candidate and accepted it.
C3_DedupBeforePersistence ==
    [][\A c \in Collectors :
         Acts(c) /\ col[c].pc \in {"create", "upsert"}
             => col[c].dedup = "accepted"]_vars

(***************************************************************************)
(* Bull: a job is waiting, active, delayed (backing off), completed or     *)
(* failed.  attemptsMade counts the failed attempts.                       *)
(***************************************************************************)
NewJob(data) ==
    [data |-> data, state |-> "waiting", attemptsMade |-> 0, returnvalue |-> 0,
     failedReason |-> ""]

JobIds(q) == DOMAIN bull[q]

ActiveCount(q) == Cardinality({i \in JobIds(q) : bull[q][i].state = "active"})

\* a queue that hands out jobs without counting its workers
NoWorkerLimit(q) == TRUE

\* a worker slot is free
CanActivate(q) == ActiveCount(q) < Concurrency(q)

\* a budget that counts retries short by one
RetryOneShort(q, made) == made < Attempts(q) - 1

\* a failed attempt is retried while the budget lasts
RetryAllowed(q, made) == made < Attempts(q)

\* moveToCompleted: the handler's value is stored
Completed(job, value) == [job EXCEPT !.state = "completed", !.returnvalue = value]

\* removeOnComplete: true (webhook queue): a completed job is deleted
Removed(job) == [job EXCEPT !.state = "removed"]

\* queue.add(data): the job is appended and waits
Added(b, q, data) == [b EXCEPT ![q] = Append(@, NewJob(data))]

AddedWait(b, w, q) == [w EXCEPT ![q] = Append(@, Len(b[q]) + 1)]

\* the 'completed' / 'failed' listeners of the collector queue: a delivery
\* job, when WEBHOOK_URL is set
Listens(q) == q = "collector" /\ webhookUrl

QueueInit ==
    /\ StoreIdle
    /\ MemIdle
    /\ OrchIdle
    /\ SecIdle /\ SrcIdle
    /\ bull = [q \in BullQueues |-> <<>>]
    /\ bullWait = [q \in BullQueues |-> <<>>]
    /\ response = 0
    /\ \/ /\ server \in Servers
          /\ webhookUrl = FALSE
          /\ webhookDown = FALSE
          /\ \/ jobBudget = MaxJobs /\ throwBudget = MaxThrows
             \/ jobBudget = MaxPoolJobs /\ throwBudget = MaxPoolThrows
       \/ /\ server = "server"
          /\ webhookUrl = TRUE
          /\ jobBudget = MaxHookJobs
          /\ \/ webhookDown = FALSE /\ throwBudget = MaxThrows
             \/ webhookDown = TRUE /\ throwBudget = MaxPoolThrows

\* the collector types POST /run knows
KnownTypes == {"exa", "sec", "ftc", "all"}

\* routes/collectors.ts checks the type of the request; the handler of
\* server-simple.ts has no check
Validates(srv) == srv = "server"

\* POST /run with body {type}: 400 for a type the route rejects, 500 when
\* collectorQueue.add rejects, else the job is added and its id answered
PostRun(type, addOk) ==
    /\ jobBudget > 0
    /\ jobBudget' = jobBudget - 1
    /\ IF Validates(server) /\ type \notin KnownTypes
       THEN /\ response' = 400
            /\ UNCHANGED <<bull, bullWait>>
       ELSE IF ~addOk
       THEN /\ response' = 500
            /\ UNCHANGED <<bull, bullWait>>
       ELSE /\ response' = 200
            /\ bull' = Added(bull, TriggerQueue(server), [type |-> type])
            /\ bullWait' = AddedWait(bull, bullWait, TriggerQueue(server))
    /\ UNCHANGED <<server, webhookUrl, webhookDown, throwBudget>>
    /\ UNCHANGED notQueue

\* POST /run (routes/collectors.ts, server-simple.ts) for every collector:
\* collectorQueue.add
BullAdd(q) ==
    /\ q = TriggerQueue(server)
    /\ PostRun("all", TRUE)

\* a worker takes the first waiting job
BullActivate(q) ==
    /\ bullWait[q] # <<>>
    /\ CanActivate(q)
    /\ bull' = [bull EXCEPT ![q][Head(bullWait[q])].state = "active"]
    /\ bullWait' = [bullWait EXCEPT ![q] = Tail(@)]
    /\ UNCHANGED <<server, response, webhookUrl, webhookDown, jobBudget, throwBudget>>
    /\ UNCHANGED notQueue

\* processWebhookJob: !response.ok -> throw
WebhookThrows(q) == q = "webhook" /\ webhookDown

\* the handler returned: the job is completed with the value of this
\* attempt, and 'completed' is emitted
BullCompleted(q, i) ==
    /\ bull[q][i].state = "active"
    /\ ~WebhookThrows(q)
    /\ LET value == bull[q][i].attemptsMade + 1
           done == [bull EXCEPT ![q][i] = IF q = "webhook"
                                          THEN Removed(Completed(@, value))
                                          ELSE Completed(@, value)]
       IN  IF Listens(q)
           THEN /\ bull' = Added(done, "webhook",
                                 [event |-> "collection.completed", jobId |-> i])
                /\ bullWait' = AddedWait(done, bullWait, "webhook")
           ELSE /\ bull' = done
                /\ UNCHANGED bullWait
    /\ UNCHANGED <<server, response, webhookUrl, webhookDown, jobBudget, throwBudget>>
    /\ UNCHANGED notQueue

\* the handler threw: moveToFailed saves the attempt and the reason, then
\* the job backs off or is failed; 'failed' is emitted either way
BullFailed(q, i) ==
    /\ bull[q][i].state = "active"
    /\ IF WebhookThrows(q) THEN UNCHANGED throwBudget
       ELSE throwBudget > 0 /\ throwBudget' = throwBudget - 1
    /\ LET made == bull[q][i].attemptsMade + 1
           moved == [bull EXCEPT ![q][i] =
                       [@ EXCEPT !.attemptsMade = made, !.failedReason = "error",
                                 !.state = IF RetryAllowed(q, made) THEN "delayed"
                                           ELSE "failed"]]
       IN  IF Listens(q)
           THEN /\ bull' = Added(moved, "webhook",
                                 [event |-> "collection.failed", jobId |-> i])
                /\ bullWait' = AddedWait(moved, bullWait, "webhook")
           ELSE /\ bull' = moved
                /\ UNCHANGED bullWait
    /\ UNCHANGED <<server, response, webhookUrl, webhookDown, jobBudget>>
    /\ UNCHANGED notQueue

\* the backoff delay has elapsed: the job waits again
BullPromote(q, i) ==
    /\ bull[q][i].state = "delayed"
    /\ bull' = [bull EXCEPT ![q][i].state = "waiting"]
    /\ bullWait' = [bullWait EXCEPT ![q] = Append(@, i)]
    /\ UNCHANGED <<server, response, webhookUrl, webhookDown, jobBudget, throwBudget>>
    /\ UNCHANGED notQueue

QueueNext ==
    \E q \in BullQueues :
      \/ BullAdd(q)
      \/ BullActivate(q)
      \/ \E i \in JobIds(q) :
           \/ BullCompleted(q, i)
           \/ BullFailed(q, i)
           \/ BullPromote(q, i)

SpecQueue == QueueInit /\ [][QueueNext]_vars

(***************************************************************************)
(* The trigger endpoints on their own: POST /run of the backend, and the   *)
(* POST route of the web app, which forwards to the backend.               *)
(***************************************************************************)
MaxRequests == 4

\* the types a request may carry: two known ones and one unknown
RequestTypes == {"all", "exa", "bogus"}

TriggerInit ==
    /\ StoreIdle
    /\ MemIdle
    /\ OrchIdle
    /\ SecIdle /\ SrcIdle
    /\ bull = [q \in BullQueues |-> <<>>]
    /\ bullWait = [q \in BullQueues |-> <<>>]
    /\ response = 0
    /\ server \in Servers
    /\ webhookUrl = FALSE
    /\ webhookDown = FALSE
    /\ jobBudget = MaxRequests
    /\ throwBudget = 0

\* a request straight to the backend
BackendPost == \E type \in RequestTypes, addOk \in BOOLEAN : PostRun(type, addOk)

\* the web app's POST: its own check of `collector`, then the request is
\* forwarded with type: collector; a backend answer that is not ok is thrown
\* and answered with 500
WebPost ==
    \E collector \in RequestTypes, addOk \in BOOLEAN :
        IF collector \notin KnownTypes
        THEN /\ jobBudget > 0
             /\ jobBudget' = jobBudget - 1
             /\ response' = 400
             /\ UNCHANGED <<server, bull, bullWait, webhookUrl, webhookDown, throwBudget>>
             /\ UNCHANGED notQueue
        ELSE PostRun(collector, addOk)

TriggerNext ==
    \/ BackendPost
    \/ WebPost

SpecTrigger == TriggerInit /\ [][TriggerNext]_vars

\* C21: a request to start a collection that names a source outside the known
\* set is answered with 400, and no job is enqueued for it.
C21_UnknownSourceRejected ==
    [][\A type \in RequestTypes \ KnownTypes, addOk \in BOOLEAN :
         PostRun(type, addOk) => response' = 400 /\ bull' = bull]_vars

\* the jobs of the queue that POST /run adds to
TriggerJobs == {bull[TriggerQueue(server)][i] : i \in JobIds(TriggerQueue(server))}

\* C4: a collector job whose handler throws on every attempt is failed after
\* exactly 3 attempts: every failed collector job has made 3 attempts and
\* carries the reason.
C4_FailedAfterThreeAttempts ==
    \A j \in TriggerJobs :
        j.state = "failed" => j.attemptsMade = 3 /\ j.failedReason # ""

\* C5: a job of the collector queue whose handler threw twice gets a third
\* attempt, and when that attempt returns the job is completed with the
\* value the third attempt returned.
C5_ThirdAttemptCompletes ==
    \A i \in JobIds("collector") :
        bull["collector"][i].attemptsMade = 2
            => /\ bull["collector"][i].state # "failed"
               /\ bull["collector"][i].state = "completed"
                     => bull["collector"][i].returnvalue = 3

\* C5, the scenario: a job of the collector queue completed on its third attempt
C5_CompletedOnThirdAttempt ==
    \E i \in JobIds("collector") :
        /\ bull["collector"][i].attemptsMade = 2
        /\ bull["collector"][i].state = "completed"

\* C6: at most 5 jobs of the collector queue are active at any time
C6_AtMostFiveActive == ActiveCount("collector") <= 5

\* C6, the scenario: all 5 workers are busy while a job waits
C6_WorkersBusyJobWaiting ==
    /\ ActiveCount("collector") = 5
    /\ bullWait["collector"] # <<>>

\* a job that is completed or failed for good
Terminal(job) == job.state \in {"completed", "failed"}

\* a step of the webhook queue's own workers: no delivery job is added
WebhookStep ==
    /\ bull'["webhook"] # bull["webhook"]
    /\ Len(bull'["webhook"]) = Len(bull["webhook"])

\* C14: with the webhook endpoint answering 500 to every delivery, a delivery
\* job is never completed and is given up after exactly 5 attempts; a
\* collector job that reached its terminal state keeps it, and no step of the
\* webhook workers touches the collector queue or its waiting list.
C14_NotifierIsolated ==
    /\ [](webhookDown =>
            \A i \in JobIds("webhook") :
                /\ bull["webhook"][i].state \notin {"completed", "removed"}
                /\ bull["webhook"][i].attemptsMade <= 5
                /\ bull["webhook"][i].state = "failed"
                      <=> bull["webhook"][i].attemptsMade = 5)
    /\ [][webhookDown =>
            /\ \A i \in JobIds("collector") :
                  Terminal(bull["collector"][i])
                      => bull'["collector"][i] = bull["collector"][i]
            /\ WebhookStep => /\ bull'["collector"] = bull["collector"]
                              /\ bullWait'["collector"] = bullWait["collector"]]_vars

\* C14, the scenario: a delivery was given up after its fifth attempt while
\* the collector job it reports on stands completed
C14_DeliveryGivenUp ==
    /\ webhookDown
    /\ \E i \in JobIds("webhook") :
          /\ bull["webhook"][i].state = "failed"
          /\ bull["webhook"][i].attemptsMade = 5
          /\ bull["collector"][bull["webhook"][i].data.jobId].state = "completed"

(***************************************************************************)
(* InMemoryQueue: add, process, processNext.  processNext runs up to its   *)
(* await in one step and from the processor's settling to its end in       *)
(* another; the listeners of 'completed' and 'failed' run inside emit and  *)
(* may throw.                                                              *)
(***************************************************************************)
MemInit == MemIdle /\ StoreIdle /\ QueueIdle /\ OrchIdle /\ SecIdle /\ SrcIdle

\* !job.finishedOn && !job.failedReason: an empty message is falsy
IsPending(job) == ~job.finishedOn /\ job.failedReason \in {Undefined, ""}

PendingJobs == SelectSeq([i \in DOMAIN memJobs |-> i], LAMBDA i : IsPending(memJobs[i]))

\* add(data): the job is put into the map and a processNext is scheduled
MemAdd ==
    /\ Len(memJobs) < MaxMemJobs
    /\ memJobs' = Append(memJobs, [finishedOn |-> FALSE, returnvalue |-> FALSE,
                                   failedReason |-> Undefined])
    /\ memImmediates' = memImmediates + 1
    /\ UNCHANGED <<memProcessor, memProcessing, memRun>>
    /\ UNCHANGED notMem

\* process(processor)
MemProcess ==
    /\ ~memProcessor
    /\ memProcessor' = TRUE
    /\ UNCHANGED <<memJobs, memProcessing, memImmediates, memRun>>
    /\ UNCHANGED notMem

\* a scheduled processNext() runs: it returns at once, or takes the first
\* pending job and calls the processor
MemProcessNext ==
    /\ memImmediates > 0
    /\ memImmediates' = memImmediates - 1
    /\ IF memProcessing \/ ~memProcessor \/ PendingJobs = <<>>
       THEN UNCHANGED <<memProcessing, memRun>>
       ELSE /\ memProcessing' = TRUE
            /\ memRun' = [job |-> Head(PendingJobs), pendingJobs |-> Len(PendingJobs)]
    /\ UNCHANGED <<memJobs, memProcessor>>
    /\ UNCHANGED notMem

\* the catch block: failedReason is the message of what was thrown
MemCaught(job, message) == [job EXCEPT !.failedReason = message]

\* the try block after the processor returned: the result and the finish
\* time are stored before 'completed' is emitted
MemFinished(job) == [job EXCEPT !.returnvalue = TRUE, !.finishedOn = TRUE]

\* the finally block
MemFinally ==
    /\ memProcessing' = FALSE
    /\ memImmediates' = IF memRun.pendingJobs > 1 THEN memImmediates + 1
                        ELSE memImmediates
    /\ memRun' = NoRun

\* the processor returned a result; the 'completed' listeners return, or one
\* of them throws, which lands in the catch block
MemProcessorReturned ==
    /\ memRun # NoRun
    /\ \/ memJobs' = [memJobs EXCEPT ![memRun.job] = MemFinished(@)]
       \/ \E m \in Messages :
            memJobs' = [memJobs EXCEPT ![memRun.job] = MemCaught(MemFinished(@), m)]
    /\ MemFinally
    /\ UNCHANGED memProcessor
    /\ UNCHANGED notMem

\* the processor threw (its promise rejected)
MemProcessorThrew ==
    /\ memRun # NoRun
    /\ \E m \in Messages :
         memJobs' = [memJobs EXCEPT ![memRun.job] = MemCaught(@, m)]
    /\ MemFinally
    /\ UNCHANGED memProcessor
    /\ UNCHANGED notMem

MemNext ==
    \/ MemAdd
    \/ MemProcess
    \/ MemProcessNext
    \/ MemProcessorReturned
    \/ MemProcessorThrew

SpecMemQueue == MemInit /\ [][MemNext]_vars

\* The same queue with its scheduling: process() is called at some point, a
\* setImmediate callback that is pending runs, and a handler that was called
\* settles.  No further add() is promised.
SpecMemLive ==
    /\ MemInit
    /\ [][MemNext]_vars
    /\ WF_vars(MemProcess)
    /\ WF_vars(MemProcessNext)
    /\ WF_vars(MemProcessorReturned \/ MemProcessorThrew)

\* the job was completed, or it failed: 'completed' or 'failed' was emitted
MemTerminal(job) == job.finishedOn \/ job.failedReason # Undefined

\* C27: every job added with add() eventually reaches a terminal state,
\* completed or failed, without a further add() being needed.
C27_EveryJobSettles ==
    \A i \in 1..MaxMemJobs :
        (i \in DOMAIN memJobs) ~> (i \in DOMAIN memJobs /\ MemTerminal(memJobs[i]))

\* C28: the handler is invoked at most once per job: the job a processNext
\* hands to the processor is not being processed and has not completed or
\* failed before.
C28_AtMostOnce ==
    [][memRun = NoRun /\ memRun' # NoRun
         => ~MemTerminal(memJobs[memRun'.job])]_vars

\* C7: no job of the in-memory queue carries both a completion record
\* (finish time, return value) and a failure reason, whatever the processor
\* and the listeners do.
C7_CompletedXorFailed ==
    \A i \in DOMAIN memJobs :
        ~(memJobs[i].finishedOn /\ memJobs[i].failedReason # Undefined)

(***************************************************************************)
(* AgenticOrchestrator: the performance window and the priorities.         *)
(***************************************************************************)
Window == 20

AddFrac(a, b) == <<a[1] * b[2] + b[1] * a[2], a[2] * b[2]>>

\* a > b, for fractions with positive denominators
GreaterFrac(a, b) == a[1] * b[2] > b[1] * a[2]

\* result.casesFound > 0 ? result.casesProcessed / result.casesFound : 0
SuccessRate(result) ==
    IF result.casesFound > 0 THEN <<result.casesProcessed, result.casesFound>>
    ELSE <<0, 1>>

\* a history that keeps everything
PushedOnly(history, rate) == Append(history, rate)

\* history.push(successRate); if (history.length > 20) history.shift()
Pushed(history, rate) ==
    IF Len(Append(history, rate)) > Window THEN Tail(Append(history, rate))
    ELSE Append(history, rate)

\* updatePerformanceMetrics(sourceName, result)
updatePerformanceMetrics(sourceName, result) ==
    [performanceHistory EXCEPT ![sourceName] = Pushed(@, SuccessRate(result))]

RECURSIVE SumRates(_)
SumRates(history) ==
    IF history = <<>> THEN <<0, 1>>
    ELSE AddFrac(Head(history), SumRates(Tail(history)))

\* sourceEffectiveness.get(name) || { successRate: 0.5, avgQuality: 5 }; an
\* entry is set by every updatePerformanceMetrics: the mean of the history,
\* and avgQuality 7
Effectiveness(name) ==
    IF performanceHistory[name] = <<>>
    THEN [successRate |-> <<1, 2>>, avgQuality |-> 5]
    ELSE [successRate |->
              <<SumRates(performanceHistory[name])[1],
                SumRates(performanceHistory[name])[2] * Len(performanceHistory[name])>>,
          avgQuality |-> 7]

Min(a, b) == IF a < b THEN a ELSE b

\* successRate * 0.4 + (avgQuality / 10) * 0.3 + min(hours, 24) / 24 * 0.3,
\* over the denominator 2000 * d for a success rate n / d
Priority(source) ==
    LET e == Effectiveness(source.name)
    IN  <<800 * e.successRate[1]
            + (60 * e.avgQuality + 25 * Min(source.hours, 24)) * e.successRate[2],
          2000 * e.successRate[2]>>

\* priority > tenths / 10
Above(priority, tenths) == GreaterFrac(priority, <<tenths, 10>>)

\* priorities.sort((a, b) => b.priority - a.priority): descending and stable
prioritizeSources ==
    LET n == Len(knownSources)
        Before(i, j) ==
            \/ GreaterFrac(Priority(knownSources[i]), Priority(knownSources[j]))
            \/ /\ Priority(knownSources[i])[1] * Priority(knownSources[j])[2]
                    = Priority(knownSources[j])[1] * Priority(knownSources[i])[2]
               /\ i < j
        order == CHOOSE f \in [1..n -> 1..n] :
                    \A i, j \in 1..n : i < j => Before(f[i], f[j])
    IN  [k \in 1..n |-> [name |-> knownSources[order[k]].name,
                         priority |-> Priority(knownSources[order[k]])]]

\* getTotalQueryCount() === 0
NoQueries == generatedQueries = "empty"

\* source.name.includes('Exa')
IsExa(name) == name \in {ExaName, ForcedName}

\* an admission rule that lets every source run
RunAlways(source, strategy, isBusinessHours, randomHigh) == TRUE

\* shouldRunCollector(source, strategy), with the hour and Math.random() it reads
shouldRunCollector(source, strategy, isBusinessHours, randomHigh) ==
    IF NoQueries THEN FALSE
    ELSE CASE strategy \in {"aggressive", "exploratory"} -> TRUE
           [] strategy = "targeted" ->
                \/ Above(source.priority, 3)
                \/ IsExa(source.name)
                \/ isBusinessHours /\ Above(source.priority, 2)
           [] strategy = "maintenance" ->
                \/ Above(source.priority, 5)
                \/ IsExa(source.name) /\ randomHigh
           [] OTHER -> Above(source.priority, 3) \/ IsExa(source.name)

RECURSIVE TotalFound(_)
TotalFound(results) ==
    IF results = <<>> THEN 0
    ELSE Head(results).casesFound + TotalFound(Tail(results))

\* a cycle that never falls back
NeverForced(collectorsRun, results) == FALSE

\* collectorsRun.length === 0 || results.reduce(... + r.casesFound, 0) === 0
ForceNeeded(collectorsRun, results) ==
    Len(collectorsRun) = 0 \/ TotalFound(results) = 0

\* the catch of runOptimizedCollector: a result with nothing found and the error
FailedResult == [casesFound |-> 0, casesProcessed |-> 0, errors |-> 1]

(***************************************************************************)
(* AgenticOrchestrator.runCollection, one call at a time.  The collectors  *)
(* are seen through the results they come back with.                       *)
(***************************************************************************)
\* what geminiService.generateJSON may answer as the strategy
StrategyAnswers == {"aggressive", "targeted", "exploratory", "maintenance", "balanced"}

\* the reasoning the AI gives with its answer
AiReasoning == "reasoning of the AI"

\* the reasoning of the catch of selectOptimalStrategy
FallbackReasoning == "AI strategy selection failed, defaulting to targeted approach"

\* a selection that passes on whatever name it has when the call failed
NoFallback(answer, ok) ==
    [name |-> IF ok THEN answer ELSE "", reasoning |-> IF ok THEN AiReasoning
                                                        ELSE FallbackReasoning]

\* selectOptimalStrategy: { name: response.strategy, reasoning: ... }, or the
\* value of its catch when generateJSON throws
selectOptimalStrategy(answer, ok) ==
    IF ok THEN [name |-> answer, reasoning |-> AiReasoning]
    ELSE [name |-> "targeted", reasoning |-> FallbackReasoning]

CycleInit ==
    /\ StoreIdle /\ QueueIdle /\ MemIdle /\ SecIdle /\ SrcIdle
    /\ OrchIdle

\* runCollection() is called: selectOptimalStrategy (the answer of the AI, or
\* "targeted" when the call fails), then prioritizeSources
SelectStrategy ==
    /\ cycle.pc \in {"idle", "returned", "threw"}
    /\ cycles < MaxCycles
    /\ cycles' = cycles + 1
    /\ \E strategy \in {selectOptimalStrategy(answer, ok) :
                             answer \in StrategyAnswers, ok \in BOOLEAN} :
         cycle' = [pc |-> "queries",
                   strategy |-> strategy.name,
                   reasoning |-> strategy.reasoning,
                   prioritizedSources |-> prioritizeSources,
                   next |-> 1, results |-> <<>>, collectorsRun |-> <<>>]
    /\ UNCHANGED <<performanceHistory, generatedQueries, metricsInput, metricsUpdates>>
    /\ UNCHANGED notOrch

\* updateQueryBank, then getTotalQueryCount() === 0 -> generateBaseQueries.
\* The AI answers with queries, with empty lists, or with something that has
\* no lists, on which getAllQueries throws; or the call fails and the base
\* queries are taken.  (Shapes: "empty", five empty lists; "queries", five
\* lists that hold a query, generated or base; "malformed".)
UpdateQueryBank ==
    /\ cycle.pc = "queries"
    /\ \E answer \in {"generated", "empty", "malformed", "failed"} :
         /\ generatedQueries' = IF answer = "malformed" THEN "malformed"
                                ELSE "queries"
         /\ cycle' = [cycle EXCEPT !.pc = IF answer = "malformed" THEN "threw"
                                          ELSE "sources"]
    /\ UNCHANGED <<cycles, performanceHistory, metricsInput, metricsUpdates>>
    /\ UNCHANGED notOrch

\* the source name the orchestrator's processCase passes to getOrCreateSource
DiscoveryName == "AI Orchestrator Discovery"

\* a case extracted from an SEC filing that searchCompanySECFilings returned
FilingCase ==
    [claimUrl |-> "https://x.org/case-1", sourceUrl |-> "https://x.org/case-1",
     title |-> {"acme"}, deadlineDate |-> 48]

\* the orchestrator's getOrCreateSource: the sources table after it
\* (findSourceByName is .single(): a row only when exactly one)
DiscoverySource ==
    IF Cardinality(findSourceByName(DiscoveryName)) = 1 THEN sources
    ELSE sources \cup {[id |-> NewId(findSourceByName(DiscoveryName)),
                        name |-> DiscoveryName, last_checked |-> now]}

\* extractCompaniesAndFindCIKs(result), by the tables <<cases, sources>> it
\* leaves: nothing came of it (a call failed, no company, no CIK, no filing
\* with a legal matter, no case extracted); or its processCase got the source
\* and upsertCase failed; or processCase upserted the case
extractCompaniesAndFindCIKs ==
    {<<cases, sources>>, <<cases, DiscoverySource>>,
     <<UpsertCase(FilingCase, FilingCase.claimUrl), DiscoverySource>>}

\* if (result.casesFound > 0 && source.name.includes('Exa')); in the forced
\* run the name is that of Exa
LooksUpCompanies(name, result) == result.casesFound > 0 /\ IsExa(name)

\* the tables after a result of the source came in
AfterResult(name, result) ==
    IF LooksUpCompanies(name, result)
    THEN \E written \in extractCompaniesAndFindCIKs :
            cases' = written[1] /\ sources' = written[2]
    ELSE UNCHANGED <<cases, sources>>

\* what a cycle leaves alone outside the orchestrator
notCycle ==
    <<now, runs, started, col, lastResult, unreachable, queueVars, memVars, secVars,
      srcVars>>

\* one turn of the loop over prioritizedSources: shouldRunCollector, and for
\* an admitted source runOptimizedCollector (its catch turns a throw into a
\* failed result) and updatePerformanceMetrics
ConsiderSource ==
    /\ cycle.pc = "sources"
    /\ LET source == cycle.prioritizedSources[cycle.next]
           after == [cycle EXCEPT !.next = @ + 1,
                                  !.pc = IF cycle.next = Len(cycle.prioritizedSources)
                                         THEN "force" ELSE "sources"]
       IN  \E admitted \in {shouldRunCollector(source, cycle.strategy,
                                                isBusinessHours, randomHigh) :
                                 isBusinessHours \in BOOLEAN, randomHigh \in BOOLEAN} :
             IF admitted
             THEN \E result \in Results \cup {FailedResult} :
                    /\ cycle' = [after EXCEPT !.collectorsRun = Append(@, source.name),
                                              !.results = Append(@, result)]
                    /\ performanceHistory' =
                           updatePerformanceMetrics(source.name, result)
                    /\ AfterResult(source.name, result)
             ELSE /\ cycle' = after
                  /\ UNCHANGED <<performanceHistory, cases, sources>>
    /\ UNCHANGED <<cycles, generatedQueries, metricsInput, metricsUpdates>>
    /\ UNCHANGED notCycle

\* no collector ran or no case was found: this.collectors.exa.collect() is
\* called directly; what it throws (closeScraper in its finally) leaves
\* runCollection
ForcedExaRun ==
    /\ cycle.pc = "force"
    /\ ForceNeeded(cycle.collectorsRun, cycle.results)
    /\ \/ \E exaResult \in Results :
            /\ cycle' = [cycle EXCEPT !.pc = "track",
                                      !.results = Append(@, exaResult),
                                      !.collectorsRun = Append(@, ForcedName)]
            /\ AfterResult(ForcedName, exaResult)
       \/ /\ cycle' = [cycle EXCEPT !.pc = "threw"]
          /\ UNCHANGED <<cases, sources>>
    /\ UNCHANGED <<cycles, performanceHistory, generatedQueries, metricsInput,
                   metricsUpdates>>
    /\ UNCHANGED notCycle

\* trackCaseUpdates (it catches what it throws), and the return
ReturnCycle ==
    /\ \/ cycle.pc = "track"
       \/ cycle.pc = "force" /\ ~ForceNeeded(cycle.collectorsRun, cycle.results)
    /\ cycle' = [cycle EXCEPT !.pc = "returned"]
    /\ UNCHANGED <<cycles, performanceHistory, generatedQueries, metricsInput,
                   metricsUpdates>>
    /\ UNCHANGED notOrch

CycleNext ==
    \/ SelectStrategy
    \/ UpdateQueryBank
    \/ ConsiderSource
    \/ ForcedExaRun
    \/ ReturnCycle

Spec == CycleInit /\ [][CycleNext]_vars

\* the runs of a cycle that came from admission, not from the fallback
Admitted == {i \in DOMAIN cycle.collectorsRun : cycle.collectorsRun[i] # ForcedName}

\* C8: a cycle that returns has run at least one collector, and when no
\* source was admitted or the admitted sources found no case at all, the
\* fallback source (Exa) was forced to run.
C8_ForwardProgress ==
    cycle.pc = "returned"
        => /\ cycle.collectorsRun # <<>>
           /\ (\A i \in Admitted : cycle.results[i].casesFound = 0)
                 => \E i \in DOMAIN cycle.collectorsRun :
                        cycle.collectorsRun[i] = ForcedName

\* C8, the scenario: a cycle returned in which no source was admitted and
\* only the forced fallback ran
C8_OnlyTheFallbackRan ==
    /\ cycle.pc = "returned"
    /\ cycle.collectorsRun = <<ForcedName>>

\* under `maintenance`, no source but the default one is above the threshold
OnlyDefaultRuns ==
    /\ cycle.strategy = "maintenance"
    /\ \A i \in DOMAIN cycle.prioritizedSources :
          ~IsExa(cycle.prioritizedSources[i].name)
              => ~Above(cycle.prioritizedSources[i].priority, 5)

LoopOver == cycle.pc \in {"force", "track", "returned"}

\* shouldRunCollector admits the source whatever the hour and Math.random()
SurelyAdmitted(source) ==
    \A isBusinessHours \in BOOLEAN, randomHigh \in BOOLEAN :
        shouldRunCollector(source, cycle.strategy, isBusinessHours, randomHigh)

\* C12: no step in which a collector runs and throws aborts the cycle, and
\* once the loop is over every admitted source's collector was run, whatever
\* the other sources' collectors came back with.
C12_FailureIsolation ==
    /\ [][cycle.pc \in {"sources", "force"} => cycle'.pc # "threw"]_vars
    /\ [](LoopOver =>
            \A i \in DOMAIN cycle.prioritizedSources :
                SurelyAdmitted(cycle.prioritizedSources[i])
                    => \E k \in DOMAIN cycle.collectorsRun :
                          cycle.collectorsRun[k] = cycle.prioritizedSources[i].name)

\* C15: a cycle whose strategy selection failed has the strategy `targeted`,
\* and goes on with it: its sources are admitted by the rule of `targeted`.
C15_FallbackIsTargeted ==
    /\ [](cycle.reasoning = FallbackReasoning
            => cycle.strategy = "targeted" /\ cycle.pc # "idle")
    /\ [][cycle.reasoning = FallbackReasoning /\ cycle.pc = "sources"
            => LET source == cycle.prioritizedSources[cycle.next]
               IN  /\ Above(source.priority, 3) \/ IsExa(source.name)
                        => cycle'.collectorsRun
                              = Append(cycle.collectorsRun, source.name)
                   /\ ~Above(source.priority, 2) /\ ~IsExa(source.name)
                        => cycle'.collectorsRun = cycle.collectorsRun]_vars

\* C15, the scenario: a cycle whose strategy selection failed has returned
\* after running its sources under `targeted`
C15_FallbackCycleReturned ==
    /\ cycle.pc = "returned"
    /\ cycle.reasoning = FallbackReasoning
    /\ Len(cycle.collectorsRun) >= 2

\* C16: the strategy a cycle admits by and reports is one of aggressive,
\* targeted, exploratory, maintenance, whatever the selection service answers.
C16_StrategyInVocabulary ==
    cycle.pc # "idle"
        => cycle.strategy \in {"aggressive", "targeted", "exploratory", "maintenance"}

\* the source a run of collectorsRun belongs to
SourceOfRun(name) == IF name = ForcedName THEN ExaName ELSE name

\* C17: whenever a cycle takes in a collector's result -- of an admitted run
\* or of the forced fallback run, succeeded or failed -- exactly one sample,
\* the success rate of that result, is appended to that source's history.
C17_EveryResultIsSampled ==
    [][Len(cycle'.results) = Len(cycle.results) + 1
         => performanceHistory' =
               updatePerformanceMetrics(
                   SourceOfRun(cycle'.collectorsRun[Len(cycle'.collectorsRun)]),
                   cycle'.results[Len(cycle'.results)])]_vars

\* C18: no step of a cycle -- of the orchestrator itself, the collectors
\* being seen through their results -- changes the cases or the sources table.
C18_OrchestratorWritesNothing ==
    [][cases' = cases /\ sources' = sources]_vars

\* C13: runCollection never throws: whatever the strategy selection, the
\* query generation, the collectors and the tracking do, no cycle ends in an
\* exception instead of a summary.
C13_CycleNeverThrows == cycle.pc # "threw"

(***************************************************************************)
(* updatePerformanceMetrics on its own: any number of updates, for any     *)
(* source in any order; each source's collector comes back with one result *)
(* throughout, drawn at the start.                                         *)
(***************************************************************************)
MetricsInit ==
    /\ StoreIdle /\ QueueIdle /\ MemIdle /\ SecIdle /\ SrcIdle
    /\ cycle = NoCycle
    /\ cycles = 0
    /\ performanceHistory = [s \in SourceNames |-> <<>>]
    /\ generatedQueries = "empty"
    /\ metricsInput \in [SourceNames -> Results \ {FailedResult}]
    /\ metricsUpdates = [s \in SourceNames |-> 0]

MetricsUpdate(sourceName) ==
    /\ metricsUpdates[sourceName] < MaxUpdates
    /\ metricsUpdates' = [metricsUpdates EXCEPT ![sourceName] = @ + 1]
    /\ performanceHistory' =
           updatePerformanceMetrics(sourceName, metricsInput[sourceName])
    /\ UNCHANGED <<cycle, cycles, generatedQueries, metricsInput>>
    /\ UNCHANGED notOrch

MetricsNext == \E sourceName \in SourceNames : MetricsUpdate(sourceName)

SpecMetrics == MetricsInit /\ [][MetricsNext]_vars

\* C10: after any number of updates, for any source and in any order, the
\* history of each source holds at most 20 samples.
C10_HistoryWithinWindow ==
    \A s \in SourceNames : Len(performanceHistory[s]) <= 20

\* C10, the scenario: a source was updated more than 20 times and its
\* history holds 20 samples
C10_WindowSlid ==
    \E s \in SourceNames :
        /\ metricsUpdates[s] > 20
        /\ Len(performanceHistory[s]) = 20

(***************************************************************************)
(* SecCollector.collect and processCompany.  The store and the services    *)
(* are seen through what their calls come back with.                       *)
(***************************************************************************)
SecInit == SecIdle /\ SrcIdle /\ StoreIdle /\ QueueIdle /\ MemIdle /\ OrchIdle

\* a count that takes every filing twice
CountedTwice(processed) == processed + 2

\* processed++ after processFiling returned
Counted(processed) == processed + 1

\* recentFilings.slice(0, 10).length
Sliced(recentFilings) == Min(recentFilings, FilingSlice)

\* the next company of targetCompanies, or the end of the loop and the return
SecNextCompany(s) ==
    [s EXCEPT !.companies = @ - 1, !.recentFilings = 0, !.left = 0, !.processed = 0,
              !.pc = IF s.companies > 1 THEN "company" ELSE "returned"]

\* processCompany returned { found: recentFilings.length, processed }:
\* casesFound += found; casesProcessed += processed
SecCompanyDone(s) ==
    SecNextCompany([s EXCEPT !.casesFound = @ + s.recentFilings,
                             !.casesProcessed = @ + s.processed])

\* collect() up to the loop: getOrCreateSource, whose throw reaches the outer
\* catch (errors.push)
SecCollectStart ==
    /\ sec.pc \in {"idle", "returned"}
    /\ \/ sec' = [IdleSec EXCEPT !.pc = "company", !.companies = MaxCompanies]
       \/ sec' = [IdleSec EXCEPT !.pc = "returned", !.errors = 1]
    /\ UNCHANGED notSec

\* processCompany(cik, sourceId) up to its loop: fetchCompanyData throws (the
\* CollectorError is caught in collect: errors.push), or the company has n
\* recent relevant filings
SecProcessCompany ==
    /\ sec.pc = "company"
    /\ \/ sec' = SecNextCompany([sec EXCEPT !.errors = @ + 1])
       \/ \E n \in 0..MaxFilings :
            LET s == [sec EXCEPT !.recentFilings = n, !.left = Sliced(n)]
            IN  sec' = IF s.left = 0 THEN SecCompanyDone(s)
                       ELSE [s EXCEPT !.pc = "filing"]
    /\ UNCHANGED notSec

\* one turn of the loop of processCompany: processFiling returns (nothing
\* relevant, no opportunity, processCase true or false), or it throws, which
\* is logged
SecProcessFiling ==
    /\ sec.pc = "filing"
    /\ \E returned \in BOOLEAN :
         LET s == [sec EXCEPT !.left = @ - 1,
                              !.processed = IF returned THEN Counted(@) ELSE @]
         IN  sec' = IF s.left = 0 THEN SecCompanyDone(s) ELSE s
    /\ UNCHANGED notSec

SecNext ==
    \/ SecCollectStart
    \/ SecProcessCompany
    \/ SecProcessFiling

SpecSec == SecInit /\ [][SecNext]_vars

\* C11: in every CollectorResult -- of the lib and backend collectors, of the
\* SEC collector, and those a cycle holds, synthesized ones included --
\* casesProcessed is at most casesFound.
C11_ProcessedAtMostFound ==
    /\ lastResult.casesProcessed <= lastResult.casesFound
    /\ \A c \in Collectors : col[c].processed <= col[c].found
    /\ sec.casesProcessed <= sec.casesFound
    /\ \A i \in DOMAIN cycle.results :
          cycle.results[i].casesProcessed <= cycle.results[i].casesFound

\* C11, the scenario: the SEC collector returned after a company with more
\* filings than it processes, every processed one counted
C11_MoreFoundThanSliced ==
    /\ sec.pc = "returned"
    /\ sec.casesProcessed >= FilingSlice
    /\ sec.casesFound > sec.casesProcessed

\* C19: a collector whose source cannot be reached at all comes back from
\* collect() with casesFound = 0, casesProcessed = 0 and at least one entry
\* in errors.
C19_UnreachableIsReported ==
    unreachable /\ lastResult # NoResult =>
        /\ lastResult.casesFound = 0
        /\ lastResult.casesProcessed = 0
        /\ lastResult.errors >= 1

\* collector c's casesProcessed goes up in this step, the step that returns
\* the CollectorResult included
CountedNow(c) ==
    \/ col'[c].processed > col[c].processed
    \/ /\ col[c].pc # "idle"
       /\ col'[c].pc = "idle"
       /\ lastResult'.casesProcessed > col[c].processed

\* C20: casesProcessed goes up only in the step that persists the candidate,
\* createCase or upsertCase: never for a candidate without an extracted
\* opportunity, one skipped as a duplicate, or one whose persistence failed.
C20_CountedOnlyWhenPersisted ==
    [][\A c \in Collectors :
         CountedNow(c) => col[c].pc \in {"create", "upsert"}]_vars

(***************************************************************************)
(* getOrCreateSource on its own.  `new Date()` is read in the collector    *)
(* when the store call is made; the write lands in the store in a later    *)
(* step.                                                                   *)
(***************************************************************************)
SourceInit ==
    /\ StoreIdle /\ QueueIdle /\ MemIdle /\ OrchIdle /\ SecIdle /\ SrcIdle

\* the row the call goes on with: sources.find(s => s.name === sourceName)
\* over getActiveSources() in the lib, findSourceByName's .single() in the
\* backend, which has a row only when exactly one matches
Existing(kind) ==
    IF kind = "lib" \/ Cardinality(findSourceByName(ExaName)) = 1
    THEN findSourceByName(ExaName)
    ELSE {}

\* getOrCreateSource up to its write: the read, and the timestamp of the
\* update or of the new row
SrcStart(r, kind) ==
    /\ srcRun[r].pc = "idle"
    /\ runs < MaxSourceCalls
    /\ runs' = runs + 1
    /\ \E ok \in BOOLEAN :
         IF ~ok THEN UNCHANGED srcRun
         ELSE IF Existing(kind) # {}
         THEN \E s \in Existing(kind) :
                srcRun' = [srcRun EXCEPT ![r] =
                             IF kind = "lib"
                             THEN [pc |-> "touchSource", sourceId |-> s.id, stamp |-> now]
                             ELSE IdleSrc]
         ELSE srcRun' = [srcRun EXCEPT ![r] =
                           [pc |-> "createSource", sourceId |-> 0, stamp |-> now]]
    /\ UNCHANGED <<cases, sources, now, started, col, lastResult, unreachable>>
    /\ UNCHANGED notSrc

\* updateSourceLastChecked reaches the store
SrcTouch(r) ==
    /\ srcRun[r].pc = "touchSource"
    /\ \E ok \in BOOLEAN :
         sources' = IF ~ok THEN sources
                    ELSE {IF s.name = ExaName /\ s.id = srcRun[r].sourceId
                          THEN [s EXCEPT !.last_checked = srcRun[r].stamp] ELSE s
                          : s \in sources}
    /\ srcRun' = [srcRun EXCEPT ![r] = IdleSrc]
    /\ UNCHANGED <<cases, now, runs, started, col, lastResult, unreachable>>
    /\ UNCHANGED notSrc

\* createSource reaches the store
SrcCreate(r) ==
    /\ srcRun[r].pc = "createSource"
    /\ \E ok \in BOOLEAN :
         sources' = IF ~ok THEN sources
                    ELSE sources \cup
                           {[id |-> NewId(findSourceByName(ExaName)),
                             name |-> ExaName, last_checked |-> srcRun[r].stamp]}
    /\ srcRun' = [srcRun EXCEPT ![r] = IdleSrc]
    /\ UNCHANGED <<cases, now, runs, started, col, lastResult, unreachable>>
    /\ UNCHANGED notSrc

\* time passes
SrcTick ==
    /\ now < MaxClock
    /\ now' = now + ClockStep
    /\ UNCHANGED <<cases, sources, runs, started, col, lastResult, unreachable>>
    /\ UNCHANGED <<srcVars, notSrc>>

SourceNext ==
    \/ SrcTick
    \/ \E r \in SourceRuns :
         \/ \E kind \in SourceKinds : SrcStart(r, kind)
         \/ SrcTouch(r)
         \/ SrcCreate(r)

SpecSource == SourceInit /\ [][SourceNext]_vars

\* C22: the stored last_checked of a source row never decreases, whatever the
\* interleaving of the runs that touch it.
C22_LastCheckedMovesForward ==
    [][\A s \in sources : \A t \in sources' :
         t.id = s.id /\ t.name = s.name => t.last_checked >= s.last_checked]_vars

C23_TiesFavorRejection ==
    [][\A c \in LibCollectors :
         col[c].pc = "recent" /\ col'[c] # col[c] /\ col'[c].pc # "detect"
            => col'[c].pc # "create"]_vars

\* the delivery jobs enqueued for collector job i
Deliveries(i) ==
    {k \in JobIds("webhook") : bull["webhook"][k].data.jobId = i}

\* C24: with a webhook URL configured, a collector job that has reached a
\* terminal state has exactly one delivery job on the notifier queue, of
\* event collection.completed when it completed and collection.failed when it
\* failed, whatever its retry history.
C24_OneDeliveryPerTerminalJob ==
    webhookUrl =>
        \A i \in JobIds("collector") :
            Terminal(bull["collector"][i]) =>
                /\ Cardinality(Deliveries(i)) = 1
                /\ \A k \in Deliveries(i) :
                      bull["webhook"][k].data.event =
                          IF bull["collector"][i].state = "completed"
                          THEN "collection.completed" ELSE "collection.failed"

\* C25: the checks of saveCase run in the order claim URL, source URL, title,
\* content similarity, each only after the one before it found nothing; and
\* the title check sends the candidate on to the similarity judgment exactly
\* when an exact title match among the active stored cases exists, accepting
\* it otherwise.
C25_ShortCircuitOrder ==
    [][\A c \in LibCollectors :
         col'[c] # col[c] /\ col[c].cand # NoCand =>
            /\ col'[c].pc = "chkSource" => col[c].pc = "chkClaim"
            /\ col'[c].pc = "similar" => col[c].pc = "chkSource"
            /\ col'[c].pc = "recent" => col[c].pc = "similar"
            /\ col'[c].pc = "detect" => col[c].pc = "recent"
            /\ col[c].pc = "similar" =>
                  /\ col'[c].pc \in {"recent", "create"}
                  /\ col'[c].pc = "recent" <=> ExactTitle(col[c].cand.title) # {}]_vars

\* C26: in the loop over the sources, a source is admitted (its collector is
\* run) always under `aggressive` and `exploratory`, and under `targeted`
\* exactly when its priority is above the threshold (0.3) or it is Exa.
C26_AdmissionRule ==
    [][cycle.pc = "sources"
         => LET source == cycle.prioritizedSources[cycle.next]
                ran == cycle'.collectorsRun = Append(cycle.collectorsRun, source.name)
            IN  /\ cycle.strategy \in {"aggressive", "exploratory"} => ran
                /\ cycle.strategy = "targeted"
                      => (ran <=> Above(source.priority, 3) \/ IsExa(source.name))]_vars

(***************************************************************************)
(* Expiry: checkAndMarkExpiredCases beside the two ways a collector        *)
(* persists a candidate, saveCase (lib) and processCase (backend).         *)
(***************************************************************************)
MaxExpiryCandidates == 3   \* candidates persisted over all runs

ExpiryInit ==
    /\ StoreIdle /\ QueueIdle /\ MemIdle /\ OrchIdle /\ SecIdle /\ SrcIdle

\* markCaseAsExpired for every active case whose deadline has passed
checkAndMarkExpiredCases ==
    {IF r.status = "active" /\ r.deadline_date < now
     THEN [r EXCEPT !.status = "expired"] ELSE r : r \in cases}

ExpMark ==
    /\ checkAndMarkExpiredCases # cases
    /\ cases' = checkAndMarkExpiredCases
    /\ UNCHANGED <<sources, now, runs, started, col, lastResult, unreachable>>
    /\ UNCHANGED <<srcVars, notSrc>>

\* backend processCase for a candidate: upsertCase, or a failure before it
ExpProcessCase ==
    /\ started < MaxExpiryCandidates
    /\ started' = started + 1
    /\ \E cand \in Candidates, ok \in BOOLEAN :
         cases' = IF ok THEN UpsertCase(cand, cand.claimUrl) ELSE cases
    /\ UNCHANGED <<sources, now, runs, col, lastResult, unreachable>>
    /\ UNCHANGED <<srcVars, notSrc>>

\* lib saveCase for a candidate: skipped on a stored claim URL or source URL
\* or on the similarity verdict, else createCase
ExpSaveCase ==
    /\ started < MaxExpiryCandidates
    /\ started' = started + 1
    /\ \E cand \in Candidates, isDuplicate \in BOOLEAN :
         cases' = IF \/ findCaseByUrl(cand.claimUrl)
                     \/ findCaseByUrl(cand.sourceUrl)
                     \/ isDuplicate
                  THEN cases
                  ELSE InsertCase(cand)
    /\ UNCHANGED <<sources, now, runs, col, lastResult, unreachable>>
    /\ UNCHANGED <<srcVars, notSrc>>

ExpiryNext ==
    \/ SrcTick
    \/ ExpMark
    \/ ExpProcessCase
    \/ ExpSaveCase

SpecExpiry == ExpiryInit /\ [][ExpiryNext]_vars

\* C29: a stored case that has been marked expired stays expired: no later
\* step, a run that finds its claim URL again and persists it included, sets
\* its status back to active.
C29_ExpiryIsPermanent ==
    [][\A r \in cases : \A t \in cases' :
         r.status = "expired" /\ t.id = r.id /\ t.claim_url = r.claim_url
            => t.status = "expired"]_vars

====
